---- MODULE Spec2Model ----
(***************************************************************************)
(* load_bearer.c: a single-threaded libevent HTTP server with three        *)
(* handlers ("/", "/delay", "/block").  The model has two parts:           *)
(*   - the query parser requested_delay as a pure function over the list   *)
(*     of key/value pairs produced by evhttp_parse_query (ParseSpec);      *)
(*   - the reactor: request arrival, handler dispatch, one-shot timers,    *)
(*     the blocking usleep and the assertion aborts (Spec, FairSpec).      *)
(* C strings are sequences of one-character strings.  Time is in           *)
(* milliseconds; a microsecond quantity u is kept as [ms, us] with         *)
(* u = 1000*ms + us and us \in 0..999, so that 32-bit unsigned values fit. *)
(***************************************************************************)
EXTENDS Integers, Sequences, FiniteSets, TLC

\* ------------------------------------------------------------------ bounds
MaxReq == 2         \* requests that arrive in one run
MaxTime == 3        \* elapsed time is counted ms by ms up to here
MaxParams == 3      \* parameters in a query string given to the parser

\* --------------------------------------------------------------- C strings
S_delay == <<"d", "e", "l", "a", "y">>
S_delayed == <<"d", "e", "l", "a", "y", "e", "d">>
S_Delay == <<"D", "e", "l", "a", "y">>
S_dela == <<"d", "e", "l", "a">>
S_Waited == <<"W", "a", "i", "t", "e", "d", " ">>
S_ms == <<" ", "m", "s">>
S_OK == <<"O", "K">>

Digits == <<"0", "1", "2", "3", "4", "5", "6", "7", "8", "9">>

IsDigit(c) == \E i \in 1..10 : Digits[i] = c

DigitVal(c) == (CHOOSE i \in 1..10 : Digits[i] = c) - 1

IsSpace(c) == c = " "

Min(a, b) == IF a < b THEN a ELSE b

\* strncmp(s1, s2, n) == 0: the first n characters agree, a string that ends
\* earlier being compared through its terminator.
StrNCmp0(s1, s2, n) ==
  SubSeq(s1, 1, Min(n, Len(s1))) = SubSeq(s2, 1, Min(n, Len(s2)))

RECURSIVE SkipSpace(_, _)
SkipSpace(s, i) ==
  IF i <= Len(s) /\ IsSpace(s[i]) THEN SkipSpace(s, i + 1) ELSE i

RECURSIVE AtoiDigits(_, _, _)
AtoiDigits(s, i, acc) ==
  IF i <= Len(s) /\ IsDigit(s[i])
    THEN AtoiDigits(s, i + 1, acc * 10 + DigitVal(s[i]))
    ELSE acc

\* atoi: leading white space, an optional sign, then decimal digits; 0 when
\* no digit follows.
Atoi(s) ==
  LET i == SkipSpace(s, 1)
      neg == i <= Len(s) /\ s[i] = "-"
      j == IF i <= Len(s) /\ s[i] \in {"-", "+"} THEN i + 1 ELSE i
      n == AtoiDigits(s, j, 0)
  IN IF neg THEN 0 - n ELSE n

RECURSIVE UDec(_)
UDec(n) == IF n < 10 THEN <<Digits[n + 1]>> ELSE UDec(n \div 10) \o <<Digits[(n % 10) + 1]>>

\* printf("%d", n)
FmtInt(n) == IF n < 0 THEN <<"-">> \o UDec(0 - n) ELSE UDec(n)

\* ------------------------------------------------------------ query parser
\* A query is the list evhttp_parse_query builds: records [key, value] in
\* the order of the query string.
\* The value of the first matching parameter (used by a mutant).
RequestedDelayFromFirst(params) ==
  LET hits == {i \in 1..Len(params) : StrNCmp0(params[i].key, S_delay, 5)}
  IN IF hits = {} THEN 0
     ELSE Atoi(params[CHOOSE i \in hits : \A j \in hits : i <= j].value)

RECURSIVE DelayLoop(_, _, _)
DelayLoop(params, i, wait) ==
  IF i > Len(params) THEN wait
  ELSE DelayLoop(params, i + 1,
                 IF StrNCmp0(params[i].key, S_delay, 5)
                   THEN Atoi(params[i].value)
                   ELSE wait)

requested_delay(params) == DelayLoop(params, 1, 0)

Keys == {S_delay, S_delayed, S_Delay, S_dela}

Values == {<<"1", "0">>, <<"2", "0">>, <<"a", "b", "c">>, <<>>,
           <<"-", "5">>, <<"7", "x">>}

Params == [key : Keys, value : Values]

RECURSIVE SeqsUpTo(_, _)
SeqsUpTo(S, n) ==
  IF n = 0 THEN {<<>>}
  ELSE LET shorter == SeqsUpTo(S, n - 1)
       IN shorter \cup {Append(q, x) : q \in {p \in shorter : Len(p) = n - 1}, x \in S}

AllQueries == SeqsUpTo(Params, MaxParams)

\* ------------------------------------------------------- 32-bit arithmetic
\* The low 32 bits of 1000*w as two 16-bit halves.
Mul1000Halves(w) ==
  LET wl == w % 65536
      wh == (w \div 65536) % 65536
      p == 1000 * wl
  IN [hi |-> (1000 * wh + (p \div 65536)) % 65536, lo |-> p % 65536]

\* Those 32 bits read as a signed int, in microseconds [ms, us].
WrapSigned(w) ==
  LET h == Mul1000Halves(w)
      s == IF h.hi >= 32768 THEN (h.hi - 65536) * 65536 + h.lo
                            ELSE h.hi * 65536 + h.lo
  IN [ms |-> s \div 1000, us |-> s % 1000]

\* Those 32 bits read as an unsigned int (useconds_t), in microseconds.
WrapUnsigned(w) ==
  LET h == Mul1000Halves(w)
      r == 536 * h.hi + h.lo
  IN [ms |-> 65 * h.hi + (r \div 1000), us |-> r % 1000]

Fits32(w) == w >= -2147483 /\ w <= 2147483

\* The values "1000 * wait" (int * int, stored to the long tv_usec) can take:
\* the product when it fits an int; on signed overflow the wrapped value or,
\* when the compiler widens the multiplication, the mathematical product.
TvUsecOf(w) ==
  IF Fits32(w) THEN {[ms |-> w, us |-> 0]}
  ELSE {WrapSigned(w), [ms |-> w, us |-> 0]}

\* The useconds_t argument of usleep(wait*1000): the product converted to
\* unsigned int, which is the low 32 bits on every outcome.
UsleepArgOf(w) == WrapUnsigned(w)

\* Whole milliseconds that must pass before a duration of u microseconds is over.
MsCeil(u) == u.ms + (IF u.us > 0 THEN 1 ELSE 0)

\* ------------------------------------------------------------ server state
VARIABLES
  pc,       \* the one thread: "loop" (event_dispatch), "sleeping" (in usleep),
            \* "aborted" (failed assert), "crashed" (NULL evbuffer dereferenced)
  reqs,     \* evhttp_request objects in order of arrival:
            \* [path, query, st, open, freed]
  sent,     \* sent[r]: the replies evhttp_send_reply has sent on request r
  holders,  \* heap of struct http_response: [req, buf, live]
  timers,   \* events registered by event_once, in order of deadline:
            \* [arg, tv, el, ord]
  sleep,    \* the usleep in progress: [arg, usec, el] or NoSleep
  params,   \* parser harness: the query given to requested_delay
  wait,     \* parser harness: the value it returned
  ppc       \* parser harness: "call" or "done"

vars == <<pc, reqs, sent, holders, timers, sleep, params, wait, ppc>>

NULL == 0
NoBuf == <<>>
NoHolder == [req |-> NULL, buf |-> <<>>, live |-> FALSE]
NoSleep == [arg |-> NULL, usec |-> [ms |-> 0, us |-> 0], el |-> 0]
HTTP_OK == 200

NULL_RESP_PATH == "/"
DELAYED_RESP_PATH == "/delay"
BLOCKING_RESP_PATH == "/block"
Paths == {NULL_RESP_PATH, DELAYED_RESP_PATH, BLOCKING_RESP_PATH}

ReqIds == 1..MaxReq
HolderIds == 1..MaxReq

P(k, v) == [key |-> k, value |-> v]

Q_none == <<>>
Q_delayed1 == <<P(S_delayed, <<"1">>)>>
Q_1then2 == <<P(S_delay, <<"1">>), P(S_delay, <<"2">>)>>
Q_minus1 == <<P(S_delay, <<"-", "1">>)>>
Q_big == <<P(S_delay, <<"5", "3", "6", "8", "7", "0", "9", "1", "2">>)>>

\* Query strings of the requests in the server runs.
Queries == {Q_none, Q_delayed1, Q_1then2, Q_minus1, Q_big}

\* The requests that arrive: "/" ignores its query string.
Arrivals ==
  {<<NULL_RESP_PATH, q>> : q \in {Q_none, Q_1then2}}
    \cup {<<p, q>> : p \in {DELAYED_RESP_PATH, BLOCKING_RESP_PATH}, q \in Queries}

Init ==
  /\ pc = "loop"
  /\ reqs = <<>>
  /\ sent = [r \in ReqIds |-> <<>>]
  /\ holders = [h \in HolderIds |-> NoHolder]
  /\ timers = <<>>
  /\ sleep = NoSleep
  /\ params = <<>>
  /\ wait = 0
  /\ ppc = "done"

\* "Waited %d ms"
WaitedBody(w) == S_Waited \o FmtInt(w) \o S_ms

\* The process is gone.
Dead == pc \in {"aborted", "crashed"}

\* The releases are counted per request: of the request itself, of the
\* evbuffer built for it and of the http_response made for it.
NoneFreed == [req |-> 0, buf |-> 0, resp |-> 0]

\* Freeing a request also ends its connection: open is TRUE only while the
\* client is connected and the request is not yet freed.
evhttp_request_free(rq, r) ==
  [rq EXCEPT ![r].st = "freed", ![r].freed.req = @ + 1, ![r].open = FALSE]

evbuffer_free(rq, o) == [rq EXCEPT ![o].freed.buf = @ + 1]

\* evhttp_send_reply(req, code, reason, buf) hands the reply to the
\* connection; the request is freed once it is sent (evhttp_request_free
\* in the callers' next state).
SendReply(r, code, body) ==
  sent' = [sent EXCEPT ![r] = Append(@, [status |-> code, body |-> body])]

FreeHolders == {h \in HolderIds : ~holders[h].live}

\* Mutant: one static holder is used for every request.
NewHolderStatic == CHOOSE h \in HolderIds : \A g \in HolderIds : h <= g

\* http_response_new: malloc returns a free block (the lowest one here).
NewHolder == CHOOSE h \in FreeHolders : \A g \in FreeHolders : h <= g

http_response_new(r, buf) ==
  /\ FreeHolders # {}
  /\ holders' = [holders EXCEPT ![NewHolder] = [req |-> r, buf |-> buf, live |-> TRUE]]

\* A request arrives on a new connection and waits for the reactor.
Arrive(path, query) ==
  /\ ~Dead
  /\ Len(reqs) < MaxReq
  /\ reqs' = Append(reqs, [path |-> path, query |-> query, st |-> "queued",
                           open |-> TRUE, freed |-> NoneFreed])
  /\ UNCHANGED <<pc, sent, holders, timers, sleep, params, wait, ppc>>

Queued(r) == r \in 1..Len(reqs) /\ reqs[r].st = "queued"

\* Mutant: the handler also makes a holder for the request and keeps it.
null_response_cb_holder(r) ==
  /\ pc = "loop"
  /\ Queued(r)
  /\ reqs[r].path = NULL_RESP_PATH
  /\ SendReply(r, HTTP_OK, S_OK)
  /\ reqs' = evhttp_request_free(reqs, r)
  /\ http_response_new(r, S_OK)
  /\ UNCHANGED <<pc, timers, sleep, params, wait, ppc>>

null_response_cb(r) ==
  /\ pc = "loop"
  /\ Queued(r)
  /\ reqs[r].path = NULL_RESP_PATH
  /\ SendReply(r, HTTP_OK, S_OK)
  /\ reqs' = evbuffer_free(evhttp_request_free(reqs, r), r)
  /\ UNCHANGED <<pc, holders, timers, sleep, params, wait, ppc>>

\* evbuffer_new returns NULL and the handler passes it to
\* evbuffer_add_printf, which dereferences it: the process is killed.
EvbufferNewFails(r) ==
  /\ pc = "loop"
  /\ Queued(r)
  /\ pc' = "crashed"
  /\ UNCHANGED <<reqs, sent, holders, timers, sleep, params, wait, ppc>>

\* malloc returns NULL in http_response_new: assert(resp) aborts the process.
MallocFails(r) ==
  /\ pc = "loop"
  /\ Queued(r)
  /\ reqs[r].path \in {DELAYED_RESP_PATH, BLOCKING_RESP_PATH}
  /\ pc' = "aborted"
  /\ UNCHANGED <<reqs, sent, holders, timers, sleep, params, wait, ppc>>

\* Mutant: a disconnect cancels the pending response: the timers of the
\* request are removed and its holder is released.
Disconnect_cancels(r) ==
  /\ ~Dead
  /\ r \in 1..Len(reqs)
  /\ reqs[r].st = "held"
  /\ reqs[r].open
  /\ reqs' = [reqs EXCEPT ![r].open = FALSE, ![r].st = "freed"]
  /\ timers' = SelectSeq(timers, LAMBDA t : holders[t.arg].req # r)
  /\ holders' = [h \in HolderIds |->
                   IF holders[h].req = r THEN NoHolder ELSE holders[h]]
  /\ UNCHANGED <<pc, sent, sleep, params, wait, ppc>>

\* The client of a request that is waiting for its response goes away.  No
\* handler is registered for that, so nothing else changes.
Disconnect(r) ==
  /\ ~Dead
  /\ r \in 1..Len(reqs)
  /\ reqs[r].st = "held"
  /\ reqs[r].open
  /\ reqs' = [reqs EXCEPT ![r].open = FALSE]
  /\ UNCHANGED <<pc, sent, holders, timers, sleep, params, wait, ppc>>

\* --------------------------------------------------------- time and timers
Max(a, b) == IF a > b THEN a ELSE b

\* The duration a timeval denotes, in whole ms.
TvMs(tv) == tv.tv_sec * 1000 + MsCeil(tv.tv_usec)

\* Elapsed time is counted exactly up to ElCap and stands for "ElCap or
\* more" from there on.
ElCap(need) == Max(need, MaxTime)

Rem(t) == TvMs(t.tv) - t.el
Saturated(t) == t.el >= ElCap(TvMs(t.tv))
Due(t) == t.el >= TvMs(t.tv)

\* The places in the deadline order where an event due in n ms may go:
\* after the events due earlier, before those due later.
InsertAt(n) ==
  {k \in 0..Len(timers) :
     /\ \A i \in 1..k : Saturated(timers[i]) \/ Rem(timers[i]) <= n
     /\ \A i \in (k + 1)..Len(timers) : Rem(timers[i]) >= n}

InsertTimer(k, t) ==
  SubSeq(timers, 1, k) \o <<t>> \o SubSeq(timers, k + 1, Len(timers))

\* The handlers run so far; ord records the order of registration.
Registered == Cardinality({r \in 1..Len(reqs) : reqs[r].st # "queued"})

\* Mutant: the newest event is run first.
event_once_lifo(arg, tv) ==
  timers' = InsertTimer(0, [arg |-> arg, tv |-> tv, el |-> 0, ord |-> Registered])

\* event_once(-1, EV_TIMEOUT, cb, arg, &tv)
event_once(arg, tv) ==
  \E k \in InsertAt(TvMs(tv)) :
    timers' = InsertTimer(k, [arg |-> arg, tv |-> tv, el |-> 0, ord |-> Registered])

\* Mutant: the handler answers at once instead of parking the request.
delayed_response_cb_sync(r) ==
  /\ pc = "loop"
  /\ Queued(r)
  /\ reqs[r].path = DELAYED_RESP_PATH
  /\ SendReply(r, HTTP_OK, WaitedBody(requested_delay(reqs[r].query)))
  /\ reqs' = evbuffer_free(evhttp_request_free(reqs, r), r)
  /\ UNCHANGED <<pc, holders, timers, sleep, params, wait, ppc>>

\* Mutant: the handler answers at once and still arms the timer.
delayed_response_cb_twice(r) ==
  /\ pc = "loop"
  /\ Queued(r)
  /\ reqs[r].path = DELAYED_RESP_PATH
  /\ LET w == requested_delay(reqs[r].query)
     IN /\ http_response_new(r, WaitedBody(w))
        /\ SendReply(r, HTTP_OK, WaitedBody(w))
        /\ reqs' = evhttp_request_free(reqs, r)
        /\ \E usec \in TvUsecOf(w) :
             event_once(NewHolder, [tv_sec |-> 0, tv_usec |-> usec])
  /\ UNCHANGED <<pc, sleep, params, wait, ppc>>

\* Mutant: the body is built from the first "delay" parameter, the timer
\* from the last.
delayed_response_cb_firstbody(r) ==
  /\ pc = "loop"
  /\ Queued(r)
  /\ reqs[r].path = DELAYED_RESP_PATH
  /\ LET w == requested_delay(reqs[r].query)
     IN /\ http_response_new(r, WaitedBody(RequestedDelayFromFirst(reqs[r].query)))
        /\ \E usec \in TvUsecOf(w) :
             event_once(NewHolder, [tv_sec |-> 0, tv_usec |-> usec])
  /\ reqs' = [reqs EXCEPT ![r].st = "held"]
  /\ UNCHANGED <<pc, sent, sleep, params, wait, ppc>>

delayed_response_cb(r) ==
  /\ pc = "loop"
  /\ Queued(r)
  /\ reqs[r].path = DELAYED_RESP_PATH
  /\ LET w == requested_delay(reqs[r].query)
     IN /\ http_response_new(r, WaitedBody(w))
        /\ \E usec \in TvUsecOf(w) :
             event_once(NewHolder, [tv_sec |-> 0, tv_usec |-> usec])
  /\ reqs' = [reqs EXCEPT ![r].st = "held"]
  /\ UNCHANGED <<pc, sent, sleep, params, wait, ppc>>

\* http_response_free(ptr), for the holder made for request o: the request
\* when ptr->req is set, the buffer when ptr->buf is set, then ptr itself.
http_response_free(rq, ptr, o) ==
  LET a == IF ptr.req # NULL THEN evhttp_request_free(rq, ptr.req) ELSE rq
      b == IF ptr.buf # NoBuf THEN evbuffer_free(a, o) ELSE a
  IN [b EXCEPT ![o].freed.resp = @ + 1]

\* Mutant: the callback frees the holder and its request without replying.
send_response_cb_noreply(h) ==
  /\ reqs' = http_response_free(reqs, holders[h], holders[h].req)
  /\ sent' = sent
  /\ holders' = [holders EXCEPT ![h] = NoHolder]

\* Mutant: resp->req is not cleared before http_response_free.
send_response_cb_noclear(h) ==
  LET resp == holders[h]
      o == resp.req
  IN /\ SendReply(o, HTTP_OK, resp.buf)
     /\ reqs' = http_response_free(evhttp_request_free(reqs, o), resp, o)
     /\ holders' = [holders EXCEPT ![h] = NoHolder]

\* Mutant: the callback does not call http_response_free.
send_response_cb_nofree(h) ==
  LET resp == holders[h]
      o == resp.req
  IN /\ SendReply(o, HTTP_OK, resp.buf)
     /\ reqs' = evhttp_request_free(reqs, o)
     /\ holders' = [holders EXCEPT ![h].req = NULL]

\* send_response_cb(-1, EV_TIMEOUT, resp): reply on resp->req with resp->buf,
\* clear resp->req, then http_response_free(resp).
send_response_cb(h) ==
  LET resp == holders[h]
      o == resp.req
      cleared == [resp EXCEPT !.req = NULL]
  IN /\ SendReply(o, HTTP_OK, resp.buf)
     /\ reqs' = http_response_free(evhttp_request_free(reqs, o), cleared, o)
     /\ holders' = [holders EXCEPT ![h] = NoHolder]

\* The reactor runs the callback of the one-shot timer that is due first.
TimerFire ==
  /\ pc = "loop"
  /\ timers # <<>>
  /\ Due(Head(timers))
  /\ timers' = Tail(timers)
  /\ send_response_cb(Head(timers).arg)
  /\ UNCHANGED <<pc, sleep, params, wait, ppc>>

\* Mutant: the handler parks the request on a timer instead of sleeping.
blocking_response_cb_timer(r) ==
  /\ pc = "loop"
  /\ Queued(r)
  /\ reqs[r].path = BLOCKING_RESP_PATH
  /\ LET w == requested_delay(reqs[r].query)
     IN /\ http_response_new(r, WaitedBody(w))
        /\ \E usec \in TvUsecOf(w) :
             event_once(NewHolder, [tv_sec |-> 0, tv_usec |-> usec])
  /\ reqs' = [reqs EXCEPT ![r].st = "held"]
  /\ UNCHANGED <<pc, sent, sleep, params, wait, ppc>>

\* blocking_response_cb up to the call of usleep.
blocking_response_cb(r) ==
  /\ pc = "loop"
  /\ Queued(r)
  /\ reqs[r].path = BLOCKING_RESP_PATH
  /\ LET w == requested_delay(reqs[r].query)
     IN /\ http_response_new(r, WaitedBody(w))
        /\ sleep' = [arg |-> NewHolder, usec |-> UsleepArgOf(w), el |-> 0]
  /\ reqs' = [reqs EXCEPT ![r].st = "held"]
  /\ pc' = "sleeping"
  /\ UNCHANGED <<sent, timers, params, wait, ppc>>

SleepOver == sleep.el >= MsCeil(sleep.usec)

\* usleep returned 0: the assertion holds and the handler sends the response.
UsleepReturns ==
  /\ pc = "sleeping"
  /\ SleepOver
  /\ send_response_cb(sleep.arg)
  /\ pc' = "loop"
  /\ sleep' = NoSleep
  /\ UNCHANGED <<timers, params, wait, ppc>>

\* Mutant: the result of usleep is ignored and the response is sent.
UsleepFails_ignored ==
  /\ pc = "sleeping"
  /\ ~SleepOver
  /\ send_response_cb(sleep.arg)
  /\ pc' = "loop"
  /\ sleep' = NoSleep
  /\ UNCHANGED <<timers, params, wait, ppc>>

\* usleep returned nonzero (interrupted): assert fails and the process aborts.
UsleepFails ==
  /\ pc = "sleeping"
  /\ ~SleepOver
  /\ pc' = "aborted"
  /\ UNCHANGED <<reqs, sent, holders, timers, sleep, params, wait, ppc>>

\* k ms pass.
Advance(el, need, k) == IF el + k > ElCap(need) THEN Max(el, ElCap(need)) ELSE el + k

Pass(k) ==
  /\ timers' = [i \in 1..Len(timers) |->
                  [timers[i] EXCEPT !.el = Advance(@, TvMs(timers[i].tv), k)]]
  /\ sleep' = IF pc = "sleeping"
                THEN [sleep EXCEPT !.el = Advance(@, MsCeil(sleep.usec), k)]
                ELSE sleep

\* What is still to come: ms until each pending timer and the sleep are over.
Waits ==
  {Rem(timers[i]) : i \in 1..Len(timers)}
    \cup (IF pc = "sleeping" THEN {MsCeil(sleep.usec) - sleep.el} ELSE {})

Counting ==
  \/ \E i \in 1..Len(timers) : timers[i].el < MaxTime
  \/ pc = "sleeping" /\ sleep.el < MaxTime

\* One ms passes.
Tick ==
  /\ ~Dead
  /\ Counting
  /\ Pass(1)
  /\ UNCHANGED <<pc, reqs, sent, holders, params, wait, ppc>>

\* Time passes up to the next instant at which something comes due.
TickTo ==
  /\ ~Dead
  /\ \E k \in Waits :
       /\ k > 0
       /\ \A j \in Waits : j > 0 => k <= j
       /\ Pass(k)
  /\ UNCHANGED <<pc, reqs, sent, holders, params, wait, ppc>>

Next ==
  \/ \E a \in Arrivals : Arrive(a[1], a[2])
  \/ \E r \in ReqIds : null_response_cb(r)
  \/ \E r \in ReqIds : delayed_response_cb(r)
  \/ \E r \in ReqIds : blocking_response_cb(r)
  \/ \E r \in ReqIds : EvbufferNewFails(r)
  \/ \E r \in ReqIds : MallocFails(r)
  \/ \E r \in ReqIds : Disconnect(r)
  \/ TimerFire
  \/ UsleepReturns
  \/ UsleepFails
  \/ Tick
  \/ TickTo

Spec == Init /\ [][Next]_vars

\* Liveness: the reactor keeps running its loop, so a due timer is run and a
\* finished usleep returns; time does not stop.
\* Disconnect is left out here: it only clears the flag open, which no
\* action reads.
FairNext ==
  \/ \E a \in Arrivals : Arrive(a[1], a[2])
  \/ \E r \in ReqIds : null_response_cb(r)
  \/ \E r \in ReqIds : delayed_response_cb(r)
  \/ \E r \in ReqIds : blocking_response_cb(r)
  \/ \E r \in ReqIds : EvbufferNewFails(r)
  \/ \E r \in ReqIds : MallocFails(r)
  \/ TimerFire
  \/ UsleepReturns
  \/ UsleepFails
  \/ Tick
  \/ TickTo

FairSpec ==
  /\ Init /\ [][FairNext]_vars
  /\ WF_vars(TimerFire)
  /\ WF_vars(UsleepReturns)
  /\ WF_vars(Tick)
  /\ WF_vars(TickTo)

\* ----------------------------------------------------------- parser harness
\* requested_delay applied to every query of at most MaxParams parameters.
ParseInit ==
  /\ pc = "loop"
  /\ reqs = <<>>
  /\ sent = [r \in ReqIds |-> <<>>]
  /\ holders = [h \in HolderIds |-> NoHolder]
  /\ timers = <<>>
  /\ sleep = NoSleep
  /\ params \in AllQueries
  /\ wait = 0
  /\ ppc = "call"

CallRequestedDelay ==
  /\ ppc = "call"
  /\ wait' = requested_delay(params)
  /\ ppc' = "done"
  /\ UNCHANGED <<pc, reqs, sent, holders, timers, sleep, params>>

ParseNext == CallRequestedDelay

ParseSpec == ParseInit /\ [][ParseNext]_vars

\* ------------------------------------------------------------------ claims
D(r) == requested_delay(reqs[r].query)

Arrived == 1..Len(reqs)

\* The timers whose holder refers to request r.
TimersOf(r) == {i \in 1..Len(timers) : holders[timers[i].arg].req = r}

\* r is a /delay request whose timer is armed and has not fired.
Parked(r) ==
  /\ r \in Arrived
  /\ reqs[r].path = DELAYED_RESP_PATH
  /\ reqs[r].st = "held"
  /\ TimersOf(r) # {}

\* b is a /block request inside its handler.
InBlock(b) ==
  /\ b \in Arrived
  /\ reqs[b].path = BLOCKING_RESP_PATH
  /\ reqs[b].st = "held"

Replied(r) == Len(sent'[r]) > Len(sent[r])

TypeOK ==
  /\ pc \in {"loop", "sleeping", "aborted", "crashed"}
  /\ ppc \in {"call", "done"}
  /\ Len(reqs) <= MaxReq
  /\ \A r \in Arrived : reqs[r].st \in {"queued", "held", "freed"}

\* C1: while a /delay request is parked the reactor can serve others: when a
\* request to "/" is waiting and the thread is in the event loop, or the
\* parked response itself could be sent now, the "/" handler can run; and
\* the step of delayed_response_cb ends in the event loop with the timer
\* armed and no response sent.
C1_Free ==
  \A d \in ReqIds, r \in ReqIds :
    (Parked(d) /\ Queued(r) /\ reqs[r].path = NULL_RESP_PATH)
      => ((pc = "loop" \/ ENABLED TimerFire) => ENABLED null_response_cb(r))

C1_Returns ==
  \A r \in ReqIds :
    (Queued(r) /\ reqs[r].path = DELAYED_RESP_PATH /\ reqs'[r].st # "queued")
      => (pc' = "loop" /\ sent'[r] = <<>> /\ Parked(r)')

C1_ReactorFreeWhileParked == [](C1_Free) /\ [][C1_Returns]_vars

C1_Witness ==
  /\ pc = "loop"
  /\ \E d \in ReqIds, r \in ReqIds :
       /\ Parked(d)
       /\ \A i \in TimersOf(d) : ~Due(timers[i]) /\ timers[i].el >= 1
       /\ Queued(r)
       /\ reqs[r].path = NULL_RESP_PATH

\* C2: from the moment a /block request is in its handler until its response
\* is sent, no other request is dispatched or answered and no timer callback
\* runs (the timers stay as they are, also the ones that are due).
C2_Step ==
  \A b \in ReqIds :
    InBlock(b) =>
      /\ \A r \in Arrived : r # b =>
           (reqs'[r].st = reqs[r].st /\ reqs'[r].freed = reqs[r].freed /\ sent'[r] = sent[r])
      /\ Len(timers') = Len(timers)
      /\ \A i \in 1..Len(timers) : timers'[i].arg = timers[i].arg

C2_BlockStallsReactor == [][C2_Step]_vars

C2_Witness ==
  /\ pc = "sleeping"
  /\ ~SleepOver
  /\ \E i \in 1..Len(timers) :
       /\ Due(timers[i])
       /\ ~Saturated(timers[i])
       /\ timers[i].el - sleep.el < TvMs(timers[i].tv)

\* C3: no request is ever replied to more than once.
C3_AtMostOneReply == \A r \in ReqIds : Len(sent[r]) <= 1

C3_Witness ==
  \E r \in Arrived, b \in Arrived :
    /\ reqs[r].path = DELAYED_RESP_PATH /\ Len(sent[r]) = 1
    /\ reqs[b].path = BLOCKING_RESP_PATH /\ Len(sent[b]) = 1

\* C4 (as claimed): for d >= 0 the timer of /delay?delay=d is registered for
\* d ms, and the response is sent by that timer's callback no earlier than
\* d ms after it was armed.
C4_Step ==
  \A r \in Arrived :
    (reqs[r].path = DELAYED_RESP_PATH /\ D(r) >= 0) =>
      /\ (Queued(r) /\ reqs'[r].st = "held") =>
           \E i \in 1..Len(timers') :
             /\ holders'[timers'[i].arg].req = r
             /\ timers'[i].tv = [tv_sec |-> 0, tv_usec |-> [ms |-> D(r), us |-> 0]]
      /\ Replied(r) =>
           /\ timers # <<>>
           /\ holders[Head(timers).arg].req = r
           /\ (Head(timers).el >= D(r) \/ Saturated(Head(timers)))

C4_DelayNoEarlierThanD == [][C4_Step]_vars

\* C5 (as claimed): for d >= 0 the response to /block?delay=d is sent with
\* status 200 from inside the handler, after the sleep, and not before d ms
\* have been slept.
C5_Step ==
  \A r \in Arrived :
    (reqs[r].path = BLOCKING_RESP_PATH /\ D(r) >= 0 /\ Replied(r)) =>
      /\ pc = "sleeping"
      /\ holders[sleep.arg].req = r
      /\ sent'[r][Len(sent'[r])].status = HTTP_OK
      /\ (sleep.el >= D(r) \/ sleep.el >= ElCap(MsCeil(sleep.usec)))

C5_BlockAfterFullSleep == [][C5_Step]_vars

Answered(r) == Len(sent[r]) = 1 /\ sent[r][1].status = HTTP_OK

ExactDelay(q) == SelectSeq(q, LAMBDA p : p.key = S_delay)

\* A string atoi reads a number from: white space, an optional sign, a digit.
HasIntPrefix(s) ==
  LET i == SkipSpace(s, 1)
      j == IF i <= Len(s) /\ s[i] \in {"-", "+"} THEN i + 1 ELSE i
  IN j <= Len(s) /\ IsDigit(s[j])

\* C7 (as claimed): parameters whose key is not exactly "delay" do not affect
\* the value requested_delay returns.
C7_OnlyExactKeyCounts ==
  ppc = "done" => wait = requested_delay(ExactDelay(params))

\* C8 (as claimed): with several "delay" parameters the value of the last one
\* in query order is returned.
C8_LastDelayWins ==
  (ppc = "done" /\ Len(ExactDelay(params)) >= 2)
    => wait = Atoi(ExactDelay(params)[Len(ExactDelay(params))].value)

\* C9 (as claimed): with no "delay" parameter, or a "delay" value that has no
\* integer prefix, requested_delay returns 0.
C9_MissingOrBadIsZero ==
  (/\ ppc = "done"
   /\ \/ ExactDelay(params) = <<>>
      \/ ~HasIntPrefix(ExactDelay(params)[Len(ExactDelay(params))].value))
    => wait = 0

S_Waited2ms == <<"W", "a", "i", "t", "e", "d", " ", "2", " ", "m", "s">>
S_WaitedMinus1ms == <<"W", "a", "i", "t", "e", "d", " ", "-", "1", " ", "m", "s">>

\* C10: the body held and sent for a /delay or /block request is
\* "Waited d ms" for the d the parser returns for that request, and the
\* timer or the sleep of that request is set from the same d.
C10_BodyAndDelayFromSameD ==
  /\ \A h \in HolderIds : holders[h].live =>
       holders[h].buf = WaitedBody(D(holders[h].req))
  /\ \A i \in 1..Len(timers) :
       /\ timers[i].tv.tv_sec = 0
       /\ timers[i].tv.tv_usec \in TvUsecOf(D(holders[timers[i].arg].req))
  /\ pc = "sleeping" => sleep.usec = UsleepArgOf(D(holders[sleep.arg].req))
  /\ \A r \in Arrived :
       reqs[r].path \in {DELAYED_RESP_PATH, BLOCKING_RESP_PATH} =>
         \A k \in 1..Len(sent[r]) :
           /\ sent[r][k].body = WaitedBody(D(r))
           /\ reqs[r].query = Q_1then2 => sent[r][k].body = S_Waited2ms
           /\ reqs[r].query = Q_minus1 => sent[r][k].body = S_WaitedMinus1ms

C10_Witness ==
  \E r \in Arrived, b \in Arrived :
    /\ reqs[r].path = DELAYED_RESP_PATH /\ reqs[r].query = Q_1then2 /\ Len(sent[r]) = 1
    /\ reqs[b].path = BLOCKING_RESP_PATH /\ reqs[b].query = Q_delayed1 /\ Len(sent[b]) = 1

\* The place in timers of the timer of a parked request.
TimerOf(r) == timers[CHOOSE i \in TimersOf(r) : TRUE]

Dispatched(r) == Queued(r) /\ reqs'[r].st # "queued"

\* C11: the step that handles a request to "/" sends exactly one reply, 200
\* with body "OK", in the event loop, and changes nothing else: no timer, no
\* holder, no other request.
C11_Step ==
  \A r \in Arrived :
    (reqs[r].path = NULL_RESP_PATH /\ Dispatched(r)) =>
      /\ pc = "loop" /\ pc' = "loop"
      /\ sent'[r] = <<[status |-> HTTP_OK, body |-> S_OK]>>
      /\ timers' = timers
      /\ holders' = holders
      /\ sleep' = sleep
      /\ Len(reqs') = Len(reqs)
      /\ \A o \in Arrived : o # r => (reqs'[o] = reqs[o] /\ sent'[o] = sent[o])

C11_NullHandlerFrame == [][C11_Step]_vars

C11_Witness ==
  \E r \in Arrived, d \in Arrived :
    /\ reqs[r].path = NULL_RESP_PATH
    /\ sent[r] = <<[status |-> HTTP_OK, body |-> S_OK]>>
    /\ Parked(d)

\* C12: when usleep ends before the duration it was called with is over,
\* the process aborts and nothing is sent, then or later; the response of a
\* /block request is sent only from a sleep that lasted that whole duration.
C12_Step ==
  /\ (pc = "sleeping" /\ ~SleepOver /\ pc' # "sleeping") =>
       (pc' = "aborted" /\ sent' = sent)
  /\ pc = "aborted" => sent' = sent
  /\ \A r \in Arrived :
       (reqs[r].path = BLOCKING_RESP_PATH /\ Replied(r)) =>
         (pc = "sleeping" /\ SleepOver /\ holders[sleep.arg].req = r)

C13_Step ==
  (pc = "loop" /\ pc' \notin {"loop", "sleeping"}) =>
    (pc' = "aborted" /\ sent' = sent /\ holders' = holders /\ timers' = timers)

C13_AllocFailureAborts == [][C13_Step]_vars

\* C14 (as claimed): a negative delay arms the timer, or starts the sleep,
\* with a duration of 0.
C14_NegativeClamped ==
  /\ \A i \in 1..Len(timers) :
       D(holders[timers[i].arg].req) < 0 =>
         timers[i].tv = [tv_sec |-> 0, tv_usec |-> [ms |-> 0, us |-> 0]]
  /\ (pc = "sleeping" /\ D(holders[sleep.arg].req) < 0) =>
       sleep.usec = [ms |-> 0, us |-> 0]

\* C15 (as claimed): of two parked /delay requests with different delays,
\* the one with the longer delay is not answered while the one with the
\* shorter delay is still waiting, when the longer one was armed first.
C15_Step_Claimed ==
  \A l \in Arrived, s \in Arrived :
    (/\ Parked(l) /\ Parked(s)
     /\ D(s) < D(l)
     /\ TimerOf(l).ord < TimerOf(s).ord)
      => ~Replied(l)

C15_Step ==
  \A l \in Arrived, s \in Arrived :
    (/\ Parked(l) /\ Parked(s)
     /\ TvMs(TimerOf(s).tv) < TvMs(TimerOf(l).tv)
     /\ TimerOf(s).ord < TimerOf(l).ord)
      => ~Replied(l)

C16_Step ==
  \A i \in 1..Len(timers) :
    LET t == timers[i]
        h == t.arg
        r == holders[h].req
    IN \/ /\ i = 1 /\ pc = "loop" /\ Due(t)
          /\ timers' = Tail(timers)
          /\ Replied(r)
          /\ ~holders'[h].live
       \/ /\ \E j \in 1..Len(timers') :
               /\ timers'[j].arg = h
               /\ timers'[j].tv = t.tv
               /\ timers'[j].ord = t.ord
               /\ timers'[j].el >= t.el
          /\ holders[h].live
          /\ holders'[h] = holders[h]
          /\ reqs'[r].st = "held"
          /\ reqs'[r].freed = NoneFreed
          /\ sent'[r] = sent[r]

C16_NoCancellation == [][C16_Step]_vars

C16_Witness ==
  \E r \in Arrived :
    /\ Parked(r)
    /\ ~reqs[r].open
    /\ TvMs(TimerOf(r).tv) >= 1
    /\ Due(TimerOf(r))
    /\ holders[TimerOf(r).arg].live

LiveHolders == {h \in HolderIds : holders[h].live}

InFlight(r) == r \in Arrived /\ reqs[r].st = "held"

\* C17: the live holders and the requests in flight (a /delay request with
\* its timer armed, the /block request in its handler) correspond one to
\* one; a holder keeps its request and body while it lives and ends in the
\* step that sends its response; with no request in flight there is no
\* holder, no timer and no sleep.
C17_Inv ==
  /\ \A h \in LiveHolders :
       LET r == holders[h].req
       IN /\ InFlight(r)
          /\ reqs[r].path \in {DELAYED_RESP_PATH, BLOCKING_RESP_PATH}
          /\ reqs[r].path = DELAYED_RESP_PATH =>
               Cardinality({i \in 1..Len(timers) : timers[i].arg = h}) = 1
          /\ reqs[r].path = BLOCKING_RESP_PATH =>
               (pc \in {"sleeping", "aborted"} /\ sleep.arg = h)
  /\ \A r \in Arrived :
       InFlight(r) => Cardinality({h \in LiveHolders : holders[h].req = r}) = 1
  /\ \A i \in 1..Len(timers) : timers[i].arg \in LiveHolders
  /\ sleep # NoSleep => sleep.arg \in LiveHolders
  /\ (\A r \in Arrived : ~InFlight(r)) =>
       (LiveHolders = {} /\ timers = <<>> /\ sleep = NoSleep)

C17_Step ==
  \A h \in LiveHolders :
    /\ (~holders'[h].live) <=> Replied(holders[h].req)
    /\ holders'[h].live => holders'[h] = holders[h]

Without(ts, k) == SubSeq(ts, 1, k - 1) \o SubSeq(ts, k + 1, Len(ts))

\* C18: the callback of a /delay timer sends the body built for its own
\* request on that request, and leaves the other timers, holders and
\* requests as they are; arming a timer leaves the pending timers and the
\* live holders as they are.
C18_Step ==
  \A r \in Arrived :
    reqs[r].path = DELAYED_RESP_PATH =>
      /\ Replied(r) =>
           /\ timers # <<>>
           /\ holders[Head(timers).arg].req = r
           /\ sent'[r] = <<[status |-> HTTP_OK, body |-> WaitedBody(D(r))]>>
           /\ timers' = Tail(timers)
           /\ \A h \in HolderIds : h # Head(timers).arg => holders'[h] = holders[h]
           /\ \A o \in Arrived : o # r => (reqs'[o] = reqs[o] /\ sent'[o] = sent[o])
      /\ Dispatched(r) =>
           /\ \E k \in 1..Len(timers') :
                /\ holders'[timers'[k].arg].req = r
                /\ Without(timers', k) = timers
           /\ \A h \in LiveHolders : holders'[h] = holders[h]
           /\ \A o \in Arrived : o # r => (reqs'[o] = reqs[o] /\ sent'[o] = sent[o])

C18_DelaysIndependent == [][C18_Step]_vars

C18_Witness ==
  \E r \in Arrived, s \in Arrived :
    /\ reqs[r].path = DELAYED_RESP_PATH
    /\ sent[r] = <<[status |-> HTTP_OK, body |-> WaitedBody(D(r))]>>
    /\ Parked(s)
    /\ D(s) # D(r)
    /\ holders[TimerOf(s).arg].buf = WaitedBody(D(s))

\* C19: the request, the buffer and the holder of a request are each
\* released at most once; the request is released by the send and by
\* nothing else; once a delayed request is answered all three are released;
\* no timer and no sleep refers to a released holder.
C19_ReleasedExactlyOnce ==
  /\ \A r \in Arrived :
       /\ reqs[r].freed.req <= 1
       /\ reqs[r].freed.buf <= 1
       /\ reqs[r].freed.resp <= 1
       /\ reqs[r].freed.req = Len(sent[r])
       /\ reqs[r].st # "freed" => reqs[r].freed = NoneFreed
       /\ (reqs[r].st = "freed" /\ reqs[r].path # NULL_RESP_PATH) =>
            reqs[r].freed = [req |-> 1, buf |-> 1, resp |-> 1]
  /\ \A i \in 1..Len(timers) : holders[timers[i].arg].live
  /\ pc = "sleeping" => holders[sleep.arg].live

C19_Witness ==
  \E r \in Arrived, b \in Arrived :
    /\ reqs[r].path = DELAYED_RESP_PATH
    /\ reqs[r].freed = [req |-> 1, buf |-> 1, resp |-> 1]
    /\ reqs[b].path = BLOCKING_RESP_PATH
    /\ reqs[b].freed = [req |-> 1, buf |-> 1, resp |-> 1]

\* C20 (as claimed): for d >= 0 the duration given to the timer and to the
\* sleep is exactly 1000*d microseconds.
C20_DurationIsExactlyD ==
  /\ \A i \in 1..Len(timers) :
       D(holders[timers[i].arg].req) >= 0 =>
         timers[i].tv = [tv_sec |-> 0,
                         tv_usec |-> [ms |-> D(holders[timers[i].arg].req), us |-> 0]]
  /\ (pc = "sleeping" /\ D(holders[sleep.arg].req) >= 0) =>
       sleep.usec = [ms |-> D(holders[sleep.arg].req), us |-> 0]

====
